---- MODULE Spec2Model ----
(***************************************************************************)
(* Model of the mana-cost symbol expander (src/management.py, duplicated   *)
(* in src/main.py) and of the CSV ingestion loop that calls it.            *)
(*                                                                         *)
(* A Python str is modelled as a sequence of one-character strings.  The   *)
(* one character outside ASCII that the model carries is U+00B2            *)
(* SUPERSCRIPT TWO, written "SUP2": str.isdigit() accepts it and int()     *)
(* rejects it.                                                             *)
(***************************************************************************)
EXTENDS Integers, Sequences, FiniteSets, TLC

VARIABLES mana_cost, result, pc,
          rows, num_cards, index, chunk_end, processed, batch, ipc,
          program, args, cards_exists, client, raised, calls, mpc,
          weaviate_client, config_mode, created, closed, got, last,
          colour_map, main_result, main_again, again

vars == <<mana_cost, result, pc,
          rows, num_cards, index, chunk_end, processed, batch, ipc,
          program, args, cards_exists, client, raised, calls, mpc,
          weaviate_client, config_mode, created, closed, got, last,
          colour_map, main_result, main_again, again>>

expanderVars == <<mana_cost, result, pc>>
ingestVars == <<rows, num_cards, index, chunk_end, processed, batch, ipc>>
mainVars == <<program, args, cards_exists, client, raised, calls, mpc>>
appVars == <<weaviate_client, config_mode, created, closed, got, last>>
twinVars == <<colour_map, main_result, main_again, again>>

(***************************************************************************)
(* Bounds of the model.                                                    *)
(***************************************************************************)
\* longest input enumerated character by character
MaxLen == 5
\* most bracket groups in an input built from sample payloads
MaxGroups == 3
\* most rows in the CSV file
MaxRows == 4
\* largest value of --num-cards
MaxNumCards == 2

(***************************************************************************)
(* Characters and the str methods the expander uses.                       *)
(***************************************************************************)
LowerLetters == <<"a","b","c","d","e","f","g","h","i","j","k","l","m",
                  "n","o","p","q","r","s","t","u","v","w","x","y","z">>
UpperLetters == <<"A","B","C","D","E","F","G","H","I","J","K","L","M",
                  "N","O","P","Q","R","S","T","U","V","W","X","Y","Z">>
DecimalDigits == <<"0","1","2","3","4","5","6","7","8","9">>

Range(f) == {f[i] : i \in DOMAIN f}

\* str.isspace() of one character
IsSpace(c) == c = " "

\* str.upper() of one character
UpperChar(c) ==
    IF \E i \in 1..26 : LowerLetters[i] = c
    THEN UpperLetters[CHOOSE i \in 1..26 : LowerLetters[i] = c]
    ELSE c

\* str.upper()
Upper(s) == [i \in 1..Len(s) |-> UpperChar(s[i])]

\* str.strip(): leading and trailing whitespace removed
Strip(s) ==
    LET keep == {i \in 1..Len(s) : ~IsSpace(s[i])}
    IN  IF keep = {} THEN <<>>
        ELSE LET lo == CHOOSE i \in keep : \A j \in keep : i <= j
                 hi == CHOOSE i \in keep : \A j \in keep : j <= i
             IN  SubSeq(s, lo, hi)

\* characters of Unicode category Nd, which int() parses
IsDecimalChar(c) == c \in Range(DecimalDigits)

\* characters for which str.isdigit() is true: decimals and digits such as U+00B2
IsDigitChar(c) == IsDecimalChar(c) \/ c = "SUP2"

\* str.isdigit(): non-empty and every character a digit
IsDigit(s) == Len(s) > 0 /\ \A i \in 1..Len(s) : IsDigitChar(s[i])

\* int(s) succeeds on a string of digits only if every one is a decimal
IntRaises(s) == \E i \in 1..Len(s) : ~IsDecimalChar(s[i])

DigitValue(c) == (CHOOSE i \in 1..10 : DecimalDigits[i] = c) - 1

RECURSIVE IntValue(_)
\* int(s) for a string of decimal digits
IntValue(s) ==
    IF s = <<>> THEN 0
    ELSE 10 * IntValue(SubSeq(s, 1, Len(s) - 1)) + DigitValue(s[Len(s)])

RECURSIVE IntToStr(_)
\* str(n) for n >= 0, as the f-string formats it
IntToStr(n) ==
    IF n < 10 THEN <<DecimalDigits[n + 1]>>
    ELSE IntToStr(n \div 10) \o <<DecimalDigits[(n % 10) + 1]>>

RECURSIVE Split(_, _)
\* str.split(sep) for a one-character separator
Split(s, sep) ==
    IF \E i \in 1..Len(s) : s[i] = sep
    THEN LET k == CHOOSE i \in 1..Len(s) :
                     s[i] = sep /\ \A j \in 1..(i - 1) : s[j] # sep
         IN  <<SubSeq(s, 1, k - 1)>> \o Split(SubSeq(s, k + 1, Len(s)), sep)
    ELSE <<s>>

RECURSIVE Join(_, _)
\* sep.join(parts)
Join(sep, parts) ==
    IF parts = <<>> THEN <<>>
    ELSE IF Len(parts) = 1 THEN parts[1]
    ELSE parts[1] \o sep \o Join(sep, Tail(parts))

RECURSIVE FindAll(_)
\* re.findall(r"\{([^}]*)\}", s): the payloads, left to right
FindAll(s) ==
    IF \E i \in 1..Len(s) : s[i] = "{" /\ \E j \in (i + 1)..Len(s) : s[j] = "}"
    THEN LET i == CHOOSE a \in 1..Len(s) :
                     s[a] = "{" /\ \A b \in 1..(a - 1) : s[b] # "{"
             j == CHOOSE a \in (i + 1)..Len(s) :
                     s[a] = "}" /\ \A b \in (i + 1)..(a - 1) : s[b] # "}"
         IN  <<SubSeq(s, i + 1, j - 1)>> \o FindAll(SubSeq(s, j + 1, Len(s)))
    ELSE <<>>

(***************************************************************************)
(* The literal strings of the source.                                      *)
(***************************************************************************)
s_white == <<"w","h","i","t","e">>
s_blue == <<"b","l","u","e">>
s_black == <<"b","l","a","c","k">>
s_red == <<"r","e","d">>
s_green == <<"g","r","e","e","n">>
s_colourless == <<"c","o","l","o","u","r","l","e","s","s">>
s_snow == <<"s","n","o","w">>
s_mana == <<"m","a","n","a">>
s_life == <<"l","i","f","e">>
s_tap_symbol == <<"t","a","p"," ","s","y","m","b","o","l">>
s_untap_symbol == <<"u","n">> \o s_tap_symbol
s_hybrid_mana == <<" ","h","y","b","r","i","d"," ">> \o s_mana
s_or == <<" ","o","r"," ">>
s_comma == <<",", " ">>

COLOUR_MAP ==
    [k \in {"W", "U", "B", "R", "G"} |->
        CASE k = "W" -> s_white
          [] k = "U" -> s_blue
          [] k = "B" -> s_black
          [] k = "R" -> s_red
          [] k = "G" -> s_green]

\* `symbol in COLOUR_MAP`
InColourMap(s) == Len(s) = 1 /\ s[1] \in DOMAIN COLOUR_MAP

(***************************************************************************)
(* Outcomes of a call: a returned str, a returned None, a raised error.    *)
(***************************************************************************)
ReturnStr(s) == [kind |-> "str", val |-> s]
ReturnNone == [kind |-> "None", val |-> <<>>]
RaiseValueError == [kind |-> "ValueError", val |-> <<>>]
Pending == [kind |-> "pending", val |-> <<>>]

\* a value of the mana_cost column: a str, or missing (None / NaN)
Absent == [isna |-> TRUE, str |-> <<>>]
Text(s) == [isna |-> FALSE, str |-> s]

(***************************************************************************)
(* _describe_hybrid_part                                                   *)
(***************************************************************************)
_describe_hybrid_part(part0) ==
    LET part == Strip(Upper(part0))
    IN  IF IsDigit(part)
        THEN IF IntRaises(part) THEN RaiseValueError
             ELSE ReturnStr(IntToStr(IntValue(part)) \o <<" ">> \o s_colourless)
        ELSE IF part = <<"P">> THEN ReturnStr(<<"2", " ">> \o s_life)
        ELSE IF InColourMap(part) THEN ReturnStr(COLOUR_MAP[part[1]])
        ELSE IF part = <<"C">> THEN ReturnStr(s_colourless)
        ELSE IF part = <<"S">> THEN ReturnStr(s_snow)
        ELSE ReturnStr(part)

(***************************************************************************)
(* _expand_single_symbol                                                   *)
(***************************************************************************)
\* HybridParts without `[part for part in hybrid_parts if part]`
HybridParts_unfiltered(symbol) ==
    LET described == [i \in 1..Len(Split(symbol, "/")) |->
                         _describe_hybrid_part(Split(symbol, "/")[i])]
    IN  IF \E i \in 1..Len(described) : described[i].kind = "ValueError"
        THEN RaiseValueError
        ELSE [kind |-> "list",
              val |-> [i \in 1..Len(described) |-> described[i].val]]

\* the list comprehensions of the hybrid branch: every part described, in
\* order (the first error propagates), then the empty descriptions dropped
HybridParts(symbol) ==
    LET described == [i \in 1..Len(Split(symbol, "/")) |->
                         _describe_hybrid_part(Split(symbol, "/")[i])]
    IN  IF \E i \in 1..Len(described) : described[i].kind = "ValueError"
        THEN RaiseValueError
        ELSE [kind |-> "list",
              val |-> SelectSeq([i \in 1..Len(described) |-> described[i].val],
                                LAMBDA d : d # <<>>)]

_expand_single_symbol(symbol) ==
    IF IsDigit(symbol)
    THEN IF IntRaises(symbol) THEN RaiseValueError
         ELSE ReturnStr(IntToStr(IntValue(symbol)) \o <<" ">> \o s_colourless
                        \o <<" ">> \o s_mana)
    ELSE IF InColourMap(symbol)
    THEN ReturnStr(<<"1", " ">> \o COLOUR_MAP[symbol[1]] \o <<" ">> \o s_mana)
    ELSE IF symbol = <<"C">>
    THEN ReturnStr(<<"1", " ">> \o s_colourless \o <<" ">> \o s_mana)
    ELSE IF symbol = <<"S">>
    THEN ReturnStr(<<"1", " ">> \o s_snow \o <<" ">> \o s_mana)
    ELSE IF symbol = <<"X">> THEN ReturnStr(<<"X", " ">> \o s_mana)
    ELSE IF symbol = <<"T">> THEN ReturnStr(s_tap_symbol)
    ELSE IF symbol = <<"Q">> THEN ReturnStr(s_untap_symbol)
    ELSE IF (\E i \in 1..Len(symbol) : symbol[i] = "/")
    THEN LET hybrid_parts == HybridParts(symbol)
         IN  IF hybrid_parts.kind = "ValueError" THEN RaiseValueError
             ELSE IF hybrid_parts.val # <<>>
             THEN ReturnStr(Join(s_or, hybrid_parts.val) \o s_hybrid_mana)
             ELSE ReturnStr(symbol)
    ELSE ReturnStr(symbol)

(***************************************************************************)
(* expand_mana_cost                                                        *)
(***************************************************************************)
\* Normalise without .strip()
Normalise_noStrip(raw_symbol) == Upper(raw_symbol)

\* Normalise without .upper()
Normalise_noUpper(raw_symbol) == Strip(raw_symbol)

\* raw_symbol.strip().upper()
Normalise(raw_symbol) == Upper(Strip(raw_symbol))

RECURSIVE ExpandLoop_break(_, _)
\* ExpandLoop with `break` where the code has `continue`
ExpandLoop_break(symbols, expanded_parts) ==
    IF symbols = <<>> THEN [kind |-> "list", val |-> expanded_parts]
    ELSE LET symbol == Upper(Strip(Head(symbols)))
         IN  IF symbol = <<>> THEN [kind |-> "list", val |-> expanded_parts]
             ELSE LET expanded == _expand_single_symbol(symbol)
                  IN  IF expanded.kind = "ValueError" THEN RaiseValueError
                      ELSE ExpandLoop_break(Tail(symbols),
                                            Append(expanded_parts, expanded.val))

RECURSIVE ExpandLoop(_, _)
\* the for loop over symbols, expanded_parts accumulated left to right
ExpandLoop(symbols, expanded_parts) ==
    IF symbols = <<>> THEN [kind |-> "list", val |-> expanded_parts]
    ELSE LET symbol == Normalise(Head(symbols))
         IN  IF symbol = <<>> THEN ExpandLoop(Tail(symbols), expanded_parts)
             ELSE LET expanded == _expand_single_symbol(symbol)
                  IN  IF expanded.kind = "ValueError" THEN RaiseValueError
                      ELSE IF expanded.val # <<>>
                      THEN ExpandLoop(Tail(symbols),
                                      Append(expanded_parts, expanded.val))
                      ELSE ExpandLoop(Tail(symbols), expanded_parts)

\* JoinOrNone without `if expanded_parts else None`
JoinOrNone_always(expanded_parts) == ReturnStr(Join(s_comma, expanded_parts))

\* the return statement
JoinOrNone(expanded_parts) ==
    IF expanded_parts # <<>> THEN ReturnStr(Join(s_comma, expanded_parts))
    ELSE ReturnNone

expand_mana_cost(m) ==
    IF m.isna \/ m.str = <<>> THEN ReturnNone
    ELSE LET symbols == FindAll(m.str)
         IN  IF symbols = <<>> THEN ReturnNone
             ELSE LET loop == ExpandLoop(symbols, <<>>)
                  IN  IF loop.kind = "ValueError" THEN RaiseValueError
                      ELSE JoinOrNone(loop.val)

(***************************************************************************)
(* The copy of the expander in src/main.py.  colour_map is the value that  *)
(* the module's global COLOUR_MAP holds when a call reads it.              *)
(***************************************************************************)
main_COLOUR_MAP ==
    [k \in {"W", "U", "B", "R", "G"} |->
        CASE k = "W" -> s_white
          [] k = "U" -> s_blue
          [] k = "B" -> s_black
          [] k = "R" -> s_red
          [] k = "G" -> s_green]

\* `symbol in COLOUR_MAP` in src/main.py
main_InColourMap(s) == Len(s) = 1 /\ s[1] \in DOMAIN colour_map

main_describe_hybrid_part(part0) ==
    LET part == Strip(Upper(part0))
    IN  IF IsDigit(part)
        THEN IF IntRaises(part) THEN RaiseValueError
             ELSE ReturnStr(IntToStr(IntValue(part)) \o <<" ">> \o s_colourless)
        ELSE IF part = <<"P">> THEN ReturnStr(<<"2", " ">> \o s_life)
        ELSE IF main_InColourMap(part) THEN ReturnStr(colour_map[part[1]])
        ELSE IF part = <<"C">> THEN ReturnStr(s_colourless)
        ELSE IF part = <<"S">> THEN ReturnStr(s_snow)
        ELSE ReturnStr(part)

\* the two list comprehensions of the hybrid branch in src/main.py
main_HybridParts(symbol) ==
    LET parts == Split(symbol, "/")
        described == [i \in 1..Len(parts) |-> main_describe_hybrid_part(parts[i])]
    IN  IF \E i \in 1..Len(described) : described[i].kind = "ValueError"
        THEN RaiseValueError
        ELSE [kind |-> "list",
              val |-> SelectSeq([i \in 1..Len(described) |-> described[i].val],
                                LAMBDA d : d # <<>>)]

main_expand_single_symbol(symbol) ==
    IF IsDigit(symbol)
    THEN IF IntRaises(symbol) THEN RaiseValueError
         ELSE ReturnStr(IntToStr(IntValue(symbol)) \o <<" ">> \o s_colourless
                        \o <<" ">> \o s_mana)
    ELSE IF main_InColourMap(symbol)
    THEN ReturnStr(<<"1", " ">> \o colour_map[symbol[1]] \o <<" ">> \o s_mana)
    ELSE IF symbol = <<"C">>
    THEN ReturnStr(<<"1", " ">> \o s_colourless \o <<" ">> \o s_mana)
    ELSE IF symbol = <<"S">>
    THEN ReturnStr(<<"1", " ">> \o s_snow \o <<" ">> \o s_mana)
    ELSE IF symbol = <<"X">> THEN ReturnStr(<<"X", " ">> \o s_mana)
    ELSE IF symbol = <<"T">> THEN ReturnStr(s_tap_symbol)
    ELSE IF symbol = <<"Q">> THEN ReturnStr(s_untap_symbol)
    ELSE IF Len(SelectSeq(symbol, LAMBDA c : c = "/")) > 0
    THEN LET hybrid_parts == main_HybridParts(symbol)
         IN  IF hybrid_parts.kind = "ValueError" THEN RaiseValueError
             ELSE IF hybrid_parts.val # <<>>
             THEN ReturnStr(Join(s_or, hybrid_parts.val) \o s_hybrid_mana)
             ELSE ReturnStr(symbol)
    ELSE ReturnStr(symbol)

RECURSIVE main_ExpandLoop(_, _)
\* the for loop of expand_mana_cost in src/main.py
main_ExpandLoop(symbols, expanded_parts) ==
    IF symbols = <<>> THEN [kind |-> "list", val |-> expanded_parts]
    ELSE LET symbol == Upper(Strip(Head(symbols)))
         IN  IF symbol = <<>> THEN main_ExpandLoop(Tail(symbols), expanded_parts)
             ELSE LET expanded == main_expand_single_symbol(symbol)
                  IN  IF expanded.kind = "ValueError" THEN RaiseValueError
                      ELSE IF expanded.val # <<>>
                      THEN main_ExpandLoop(Tail(symbols),
                                           Append(expanded_parts, expanded.val))
                      ELSE main_ExpandLoop(Tail(symbols), expanded_parts)

main_expand_mana_cost(m) ==
    IF m.isna \/ m.str = <<>> THEN ReturnNone
    ELSE LET symbols == FindAll(m.str)
         IN  IF symbols = <<>> THEN ReturnNone
             ELSE LET loop == main_ExpandLoop(symbols, <<>>)
                  IN  IF loop.kind = "ValueError" THEN RaiseValueError
                      ELSE IF loop.val # <<>>
                      THEN ReturnStr(Join(s_comma, loop.val))
                      ELSE ReturnNone

(***************************************************************************)
(* Inputs of the expander.                                                 *)
(***************************************************************************)
Alphabet == {"{", "}", "/", " ", "2", "SUP2", "W", "z"}

\* every string over Alphabet of length at most n
StringsUpTo(n) == UNION {[1..k -> Alphabet] : k \in 0..n}

\* payloads tried one group at a time
SingleSymbols ==
    {<<>>, <<" ">>, <<"0">>, <<"0","2">>, <<"2">>, <<"1","0">>, <<" ","2"," ">>,
     <<"W">>, <<"U">>, <<"B">>, <<"R">>, <<"G">>, <<"C">>, <<"S">>, <<"X">>,
     <<"T">>, <<"Q">>, <<"P">>, <<"Z">>, <<"w">>, <<"x">>, <<"t">>, <<" ","Z"," ">>,
     <<"W","/","U">>, <<"R","/","P">>, <<"2","/","W">>, <<"W","/","P">>,
     <<"w","/","u">>, <<"2","/","W","/","B">>, <<"0","2","/","C">>,
     <<"S","/","Z">>, <<"X","/"," ","z">>, <<"W","/">>, <<"/","/","G">>,
     <<"/">>, <<"/","/">>, <<" ","/"," ">>, <<"/"," ","/">>,
     <<"SUP2">>, <<"2","SUP2">>, <<"SUP2","/","W">>, <<"W","Z">>}

\* payloads combined into inputs of several groups
MultiSymbols ==
    {<<>>, <<" ">>, <<"2">>, <<"W">>, <<"z">>, <<"W","/","P">>, <<"/">>, <<"SUP2">>}

Group(payload) == <<"{">> \o payload \o <<"}">>

RECURSIVE Groups(_)
Groups(payloads) ==
    IF payloads = <<>> THEN <<>>
    ELSE Group(Head(payloads)) \o Groups(Tail(payloads))

GroupStrings(n) ==
    {Groups(ps) : ps \in UNION {[1..k -> MultiSymbols] : k \in 1..n}}

Inputs ==
    {Absent} \cup {Text(s) : s \in StringsUpTo(MaxLen)}
             \cup {Text(Group(p)) : p \in SingleSymbols}
             \cup {Text(s) : s \in GroupStrings(MaxGroups)}

(***************************************************************************)
(* Specification of the expander: one call on one input.                   *)
(***************************************************************************)
IngestIdle ==
    /\ rows = <<>> /\ num_cards = 0 /\ index = 0 /\ chunk_end = 0
    /\ processed = 0 /\ batch = <<>> /\ ipc = "idle"

\* the command-line program is not running
MainIdle ==
    /\ program = "management"
    /\ args = [build_db |-> FALSE, query |-> FALSE, client |-> "local"]
    /\ cards_exists = FALSE /\ client = "None" /\ raised = FALSE
    /\ calls = <<>> /\ mpc = "idle"

\* the value None of app.weaviate_client; the clients are numbered from 1
NoClient == 0

\* what the last call of the web app did: the cached client before it, whether
\* it invoked initialize_weaviate_client, how it ended and what it returned
NoCall ==
    [op |-> "none", before |-> NoClient, init |-> FALSE, outcome |-> "returned",
     value |-> NoClient, prevgot |-> NoClient]

\* the web app as imported, before any call
AppIdle ==
    /\ weaviate_client = NoClient /\ config_mode = "local" /\ created = 0
    /\ closed = {} /\ got = NoClient /\ last = NoCall

\* no call of the two copies side by side has been made
TwinIdle ==
    /\ colour_map = main_COLOUR_MAP /\ main_result = Pending
    /\ main_again = Pending /\ again = Pending

Init ==
    /\ mana_cost \in Inputs
    /\ result = Pending
    /\ pc = "call"
    /\ IngestIdle
    /\ MainIdle
    /\ AppIdle
    /\ TwinIdle

\* the call returns a value
CallReturns ==
    /\ pc = "call"
    /\ expand_mana_cost(mana_cost).kind # "ValueError"
    /\ result' = expand_mana_cost(mana_cost)
    /\ pc' = "returned"
    /\ UNCHANGED <<mana_cost, ingestVars, mainVars, appVars, twinVars>>

\* the call ends with the ValueError of int()
CallRaises ==
    /\ pc = "call"
    /\ expand_mana_cost(mana_cost).kind = "ValueError"
    /\ result' = RaiseValueError
    /\ pc' = "raised"
    /\ UNCHANGED <<mana_cost, ingestVars, mainVars, appVars, twinVars>>

Next == CallReturns \/ CallRaises

Spec == Init /\ [][Next]_vars

(***************************************************************************)
(* add_cards_to_collection: the ingestion loop over the CSV file.          *)
(*                                                                         *)
(* A row is its multiverse_id (present or not) and its mana_cost.  index   *)
(* is the DataFrame index of the row, which pandas numbers from 0 through  *)
(* the whole file, chunk after chunk.  num_cards = 0 stands for both None  *)
(* and 0: `if num_cards` treats them alike.                                *)
(***************************************************************************)
\* pd.read_csv(..., chunksize=200)
chunksize == 200

RowSet ==
    {[has_id |-> FALSE, mana_cost |-> Absent],
     [has_id |-> TRUE, mana_cost |-> Absent],
     [has_id |-> TRUE, mana_cost |-> Text(<<"{", "2", "}", "{", "W", "}">>)],
     [has_id |-> TRUE, mana_cost |-> Text(<<"{", "SUP2", "}">>)]}

\* preprocess_card_row: None for a row without multiverse_id, else the object
\* to store; the ValueError of expand_mana_cost propagates
preprocess_card_row(row) ==
    IF ~row.has_id THEN [kind |-> "None"]
    ELSE IF expand_mana_cost(row.mana_cost).kind = "ValueError"
    THEN [kind |-> "ValueError"]
    ELSE [kind |-> "dict",
          mana_cost |-> row.mana_cost,
          mana_cost_text_expanded |-> expand_mana_cost(row.mana_cost)]

ExpanderIdle ==
    /\ mana_cost = Absent /\ result = Pending /\ pc = "idle"

InitIngest ==
    /\ rows \in UNION {[1..k -> RowSet] : k \in 0..MaxRows}
    /\ num_cards \in 0..MaxNumCards
    /\ index = 0
    /\ chunk_end = 0
    /\ processed = 0
    /\ batch = <<>>
    /\ ipc = "reader"
    /\ ExpanderIdle
    /\ MainIdle
    /\ AppIdle
    /\ TwinIdle

\* `if num_cards and index > num_cards: return`
LimitReached(n, i) == n # 0 /\ i > n

\* `for chunk in reader`: the next chunk of at most chunksize rows, or the end
ReadChunk ==
    /\ ipc = "reader"
    /\ IF index < Len(rows)
       THEN /\ chunk_end' = IF index + chunksize < Len(rows)
                            THEN index + chunksize ELSE Len(rows)
            /\ ipc' = "rows"
       ELSE /\ ipc' = "exhausted"
            /\ UNCHANGED chunk_end
    /\ UNCHANGED <<rows, num_cards, index, processed, batch, expanderVars, mainVars, appVars, twinVars>>

\* the end of one pass through the body of the inner loop; processed counts
\* the passes completed
AfterRow ==
    /\ processed' = processed + 1
    /\ IF LimitReached(num_cards, index)
       THEN ipc' = "returned" /\ UNCHANGED index
       ELSE /\ index' = index + 1
            /\ ipc' = IF index + 1 < chunk_end THEN "rows" ELSE "reader"

\* a row without multiverse_id: nothing is added
RowSkipped ==
    /\ ipc = "rows"
    /\ preprocess_card_row(rows[index + 1]).kind = "None"
    /\ AfterRow
    /\ UNCHANGED <<rows, num_cards, chunk_end, batch, expanderVars, mainVars, appVars, twinVars>>

\* a row with multiverse_id: batch.add_object(row_dict)
RowAdded ==
    /\ ipc = "rows"
    /\ preprocess_card_row(rows[index + 1]).kind = "dict"
    /\ batch' = Append(batch, preprocess_card_row(rows[index + 1]))
    /\ AfterRow
    /\ UNCHANGED <<rows, num_cards, chunk_end, expanderVars, mainVars, appVars, twinVars>>

\* preprocess_card_row raises: the exception leaves the loop, the pass through
\* its body unfinished
RowRaises ==
    /\ ipc = "rows"
    /\ preprocess_card_row(rows[index + 1]).kind = "ValueError"
    /\ ipc' = "raised"
    /\ UNCHANGED <<rows, num_cards, index, chunk_end, processed, batch, expanderVars, mainVars, appVars, twinVars>>

NextIngest == ReadChunk \/ RowSkipped \/ RowAdded \/ RowRaises

SpecIngest == InitIngest /\ [][NextIngest]_vars

(***************************************************************************)
(* Vocabulary of the properties.                                           *)
(***************************************************************************)
IsUpperLetter(c) == c \in Range(UpperLetters)
IsLowerLetter(c) == c \in Range(LowerLetters)
NoUpper(s) == \A i \in 1..Len(s) : ~IsUpperLetter(s[i])
NoLower(s) == \A i \in 1..Len(s) : ~IsLowerLetter(s[i])

EndsWith(s, suffix) ==
    Len(s) >= Len(suffix) /\ SubSeq(s, Len(s) - Len(suffix) + 1, Len(s)) = suffix

\* s without its last n characters
DropLast(s, n) == SubSeq(s, 1, Len(s) - n)

Contains(s, c) == \E i \in 1..Len(s) : s[i] = c

\* sep occurs in s at position i
OccursAt(s, sep, i) ==
    i + Len(sep) - 1 <= Len(s) /\ SubSeq(s, i, i + Len(sep) - 1) = sep

RECURSIVE SplitStr(_, _)
\* the pieces of s between the occurrences of the separator string sep
SplitStr(s, sep) ==
    IF \E i \in 1..Len(s) : OccursAt(s, sep, i)
    THEN LET k == CHOOSE i \in 1..Len(s) :
                     OccursAt(s, sep, i) /\ \A j \in 1..(i - 1) : ~OccursAt(s, sep, j)
         IN  <<SubSeq(s, 1, k - 1)>>
                 \o SplitStr(SubSeq(s, k + Len(sep), Len(s)), sep)
    ELSE <<s>>

\* a payload as the classification sees it: trimmed and upper-cased
NormalForm(payload) == Upper(Strip(payload))

\* the bracket groups of the input that hold a symbol, in source order
SymbolGroups ==
    SelectSeq(FindAll(mana_cost.str), LAMBDA p : NormalForm(p) # <<>>)

\* the phrases of a returned description
Phrases == SplitStr(result.val, s_comma)

Returned == pc = "returned"
ReturnedStr == pc = "returned" /\ result.kind = "str"

\* the input is exactly one bracket group: "{", a payload free of braces, "}"
IsSingleGroup ==
    /\ ~mana_cost.isna
    /\ Len(mana_cost.str) >= 2
    /\ mana_cost.str[1] = "{"
    /\ mana_cost.str[Len(mana_cost.str)] = "}"
    /\ \A i \in 2..(Len(mana_cost.str) - 1) : mana_cost.str[i] \notin {"{", "}"}

\* its payload, as written between the braces
Payload == SubSeq(mana_cost.str, 2, Len(mana_cost.str) - 1)

SingleLetterSymbols == {"W", "U", "B", "R", "G", "C", "S", "X", "T", "Q"}

\* the kinds of the data model, on a normal form
IsNumeric(n) == IsDigit(n)
IsLetterSymbol(n) == Len(n) = 1 /\ n[1] \in SingleLetterSymbols
IsHybrid(n) == ~IsNumeric(n) /\ ~IsLetterSymbol(n) /\ Contains(n, "/")
IsUnknown(n) ==
    n # <<>> /\ ~IsNumeric(n) /\ ~IsLetterSymbol(n) /\ ~Contains(n, "/")

\* the '/'-separated parts of a normal form, trimmed
TrimmedParts(n) == [i \in 1..Len(Split(n, "/")) |-> Strip(Split(n, "/")[i])]
AllPartsEmpty(n) == \A i \in 1..Len(TrimmedParts(n)) : TrimmedParts(n)[i] = <<>>

\* a digit character as a decimal digit (U+00B2 has the digit value 2)
AsDecimal(c) == IF c = "SUP2" THEN "2" ELSE c

RECURSIVE StripZeros(_)
\* a string of decimal digits without its leading zeros
StripZeros(d) ==
    IF Len(d) > 1 /\ d[1] = "0" THEN StripZeros(Tail(d)) ELSE d

\* "<N>" for an all-digit string: its integer value, leading zeros removed
NumberText(d) == StripZeros([i \in 1..Len(d) |-> AsDecimal(d[i])])

(***************************************************************************)
(* C1.  expand_mana_cost raises no error: every call, on the absent value  *)
(* or on any string, ends by returning None or a str.                      *)
(* Refuted by the code: int() raises ValueError on a payload of digits     *)
(* that are not decimals.                                                  *)
(***************************************************************************)
C1_NeverRaises ==
    pc # "call" => pc = "returned" /\ result.kind \in {"None", "str"}

(***************************************************************************)
(* C2.  expand_mana_cost never returns the empty string: what it returns   *)
(* is None or a non-empty str, and it is None when the input is absent or  *)
(* empty, holds no {...} group, or holds only empty or whitespace-only     *)
(* groups.                                                                 *)
(***************************************************************************)
NoGroup(s) ==
    ~\E i \in 1..Len(s) : s[i] = "{" /\ \E j \in (i + 1)..Len(s) : s[j] = "}"

OnlyBlankGroups(s) ==
    \A k \in 1..Len(FindAll(s)) :
        \A i \in 1..Len(FindAll(s)[k]) : IsSpace(FindAll(s)[k][i])

C2_NeverEmptyString ==
    /\ result # ReturnStr(<<>>)
    /\ Returned => result = ReturnNone \/ (result.kind = "str" /\ Len(result.val) > 0)
    /\ pc # "call" /\ ( \/ mana_cost.isna
                        \/ mana_cost.str = <<>>
                        \/ NoGroup(mana_cost.str)
                        \/ OnlyBlankGroups(mana_cost.str) )
          => result = ReturnNone

C2_Witness ==
    /\ Returned
    /\ mana_cost = Text(<<"{", " ", "}", "{", "}">>)
    /\ result = ReturnNone

(***************************************************************************)
(* C3.  A notation that is one recognised non-hybrid symbol expands to the *)
(* phrase of the classification table: "<N> colourless mana" for an        *)
(* all-digit payload, N its integer value without leading zeros, and the   *)
(* fixed phrases for W U B R G C S X T Q.                                  *)
(* Refuted by the code on all-digit payloads holding a digit that is not a *)
(* decimal (the ValueError of C1).                                         *)
(***************************************************************************)
TablePhrase(n) ==
    IF IsNumeric(n) THEN NumberText(n) \o <<" ">> \o s_colourless \o <<" ">> \o s_mana
    ELSE CASE n = <<"W">> -> <<"1", " ">> \o s_white \o <<" ">> \o s_mana
           [] n = <<"U">> -> <<"1", " ">> \o s_blue \o <<" ">> \o s_mana
           [] n = <<"B">> -> <<"1", " ">> \o s_black \o <<" ">> \o s_mana
           [] n = <<"R">> -> <<"1", " ">> \o s_red \o <<" ">> \o s_mana
           [] n = <<"G">> -> <<"1", " ">> \o s_green \o <<" ">> \o s_mana
           [] n = <<"C">> -> <<"1", " ">> \o s_colourless \o <<" ">> \o s_mana
           [] n = <<"S">> -> <<"1", " ">> \o s_snow \o <<" ">> \o s_mana
           [] n = <<"X">> -> <<"X", " ">> \o s_mana
           [] n = <<"T">> -> s_tap_symbol
           [] n = <<"Q">> -> s_untap_symbol

C3_TablePhrase ==
    pc # "call" /\ IsSingleGroup /\ (IsNumeric(Payload) \/ IsLetterSymbol(Payload))
        => result = ReturnStr(TablePhrase(Payload))

(***************************************************************************)
(* C4.  A payload containing '/' expands to the descriptions of its parts, *)
(* in payload order, joined with " or " and followed by " hybrid mana":    *)
(* "<N> colourless" for an all-digit part, "2 life" for P, the colour name *)
(* for a colour code, "colourless" for C, "snow" for S, the part itself    *)
(* otherwise; for any number of parts.  (Parts that are empty are left out *)
(* of the join, and a payload of empty parts only is outside this claim:   *)
(* that is C9.)                                                            *)
(* Refuted by the code on an all-digit part holding a digit that is not a  *)
(* decimal (the ValueError of C1).                                         *)
(***************************************************************************)
PartPhrase(part) ==
    IF IsDigit(part) THEN NumberText(part) \o <<" ">> \o s_colourless
    ELSE IF part = <<"P">> THEN <<"2", " ">> \o s_life
    ELSE CASE part = <<"W">> -> s_white
           [] part = <<"U">> -> s_blue
           [] part = <<"B">> -> s_black
           [] part = <<"R">> -> s_red
           [] part = <<"G">> -> s_green
           [] part = <<"C">> -> s_colourless
           [] part = <<"S">> -> s_snow
           [] OTHER -> part

HybridPhrase(n) ==
    LET parts == SelectSeq(TrimmedParts(n), LAMBDA q : q # <<>>)
    IN  Join(s_or, [i \in 1..Len(parts) |-> PartPhrase(parts[i])]) \o s_hybrid_mana

C4_HybridPhrase ==
    pc # "call" /\ IsSingleGroup
                /\ IsHybrid(NormalForm(Payload)) /\ ~AllPartsEmpty(NormalForm(Payload))
        => result = ReturnStr(HybridPhrase(NormalForm(Payload)))

(***************************************************************************)
(* C5.  A notation of several symbols is expanded symbol by symbol in      *)
(* source order: for an input with at least one non-empty group, the       *)
(* result is the expansions of its groups, each as expand_mana_cost gives  *)
(* it for that group alone, left to right, joined with ", "; empty and     *)
(* whitespace-only groups add neither a phrase nor a separator; no group   *)
(* is dropped, duplicated or reordered.  (Where the expansion of a group   *)
(* ends in an error, so does the expansion of the whole.)                  *)
(***************************************************************************)
GroupExpansions ==
    [k \in 1..Len(SymbolGroups) |->
        expand_mana_cost(Text(Group(SymbolGroups[k])))]

C5_SourceOrder ==
    pc # "call" /\ ~mana_cost.isna /\ SymbolGroups # <<>>
        => IF \E k \in 1..Len(SymbolGroups) : GroupExpansions[k].kind # "str"
           THEN result = RaiseValueError
           ELSE result = ReturnStr(Join(s_comma,
                             [k \in 1..Len(SymbolGroups) |-> GroupExpansions[k].val]))

C5_Witness ==
    /\ Returned
    /\ mana_cost = Text(<<"{", "2", "}", "{", "}", "{", "W", "}">>)
    /\ result = ReturnStr(<<"2", " ">> \o s_colourless \o <<" ">> \o s_mana
                          \o s_comma \o <<"1", " ">> \o s_white \o <<" ">> \o s_mana)

(***************************************************************************)
(* C6.  As claimed: the phrase emitted for a group whose payload is of no  *)
(* known kind is the payload exactly as written between the braces.        *)
(* Refuted: the payload is trimmed and upper-cased first.                  *)
(***************************************************************************)
C6_VerbatimPassThrough ==
    ReturnedStr /\ Len(Phrases) = Len(SymbolGroups)
        => \A k \in 1..Len(SymbolGroups) :
               IsUnknown(NormalForm(SymbolGroups[k]))
                   => Phrases[k] = SymbolGroups[k]

(***************************************************************************)
(* C6, amended.  The phrase emitted for a group whose payload is of no     *)
(* known kind is that payload with its surrounding whitespace removed and  *)
(* its letters upper-cased, and nothing else changed.                      *)
(***************************************************************************)
C6_NormalisedPassThrough ==
    ReturnedStr
        => /\ Len(Phrases) = Len(SymbolGroups)
           /\ \A k \in 1..Len(SymbolGroups) :
                  IsUnknown(NormalForm(SymbolGroups[k]))
                      => Phrases[k] = Upper(Strip(SymbolGroups[k]))

C6_Witness ==
    /\ Returned
    /\ mana_cost = Text(<<"{", " ", "z", "}">>)
    /\ result = ReturnStr(<<"Z">>)

(***************************************************************************)
(* C7.  As claimed: the result is that of the upper-cased input, and every *)
(* letter of a returned description is lowercase except the X of the       *)
(* phrase "X mana".                                                        *)
(* Refuted: unknown symbols and unknown hybrid parts come out upper-cased. *)
(***************************************************************************)
UpperInput == IF mana_cost.isna THEN Absent ELSE Text(Upper(mana_cost.str))

\* position i of a description is the X that opens a phrase "X mana"
IsXOfXMana(d, i) ==
    /\ d[i] = "X"
    /\ OccursAt(d, <<" ">> \o s_mana, i + 1)
    /\ i = 1 \/ (i > 2 /\ OccursAt(d, s_comma, i - 2))

C7_LowercaseExceptX ==
    pc # "call"
        => /\ result = expand_mana_cost(UpperInput)
           /\ result.kind = "str"
                  => \A i \in 1..Len(result.val) :
                         IsUpperLetter(result.val[i]) => IsXOfXMana(result.val, i)

(***************************************************************************)
(* C7, amended.  The result is that of the upper-cased input, and every    *)
(* phrase of a returned description is lowercase vocabulary, or "X mana",  *)
(* or an unknown symbol passed through upper-cased, or a hybrid phrase     *)
(* whose parts are each lowercase vocabulary or an unknown part passed     *)
(* through upper-cased.                                                    *)
(***************************************************************************)
IsVocabularyPhrase(ph) ==
    NoUpper(ph) /\ (EndsWith(ph, <<" ">> \o s_mana) \/ ph \in {s_tap_symbol, s_untap_symbol})

IsVocabularyPart(q) ==
    NoUpper(q) /\ ( \/ q \in {s_white, s_blue, s_black, s_red, s_green,
                              s_colourless, s_snow, <<"2", " ">> \o s_life}
                    \/ EndsWith(q, <<" ">> \o s_colourless) )

IsHybridPhrase(ph) ==
    /\ EndsWith(ph, s_hybrid_mana)
    /\ LET parts == SplitStr(DropLast(ph, Len(s_hybrid_mana)), s_or)
       IN  \A i \in 1..Len(parts) : IsVocabularyPart(parts[i]) \/ NoLower(parts[i])

IsPhrase(ph) ==
    \/ IsVocabularyPhrase(ph) /\ ~EndsWith(ph, s_hybrid_mana)
    \/ ph = <<"X", " ">> \o s_mana
    \/ NoLower(ph)
    \/ IsHybridPhrase(ph)

C7_CaseInsensitiveVocabulary ==
    pc # "call"
        => /\ result = expand_mana_cost(UpperInput)
           /\ result.kind = "str"
                  => \A k \in 1..Len(Phrases) : IsPhrase(Phrases[k])

C7_Witness ==
    /\ Returned
    /\ mana_cost = Text(<<"{", "z", "}", "{", "W", "}">>)
    /\ result = ReturnStr(<<"Z">> \o s_comma \o <<"1", " ">> \o s_white
                          \o <<" ">> \o s_mana)

(***************************************************************************)
(* C8.  Extraction ignores everything that is not a well-formed {...}      *)
(* group: the result is that of the input reduced to its well-formed       *)
(* groups, so characters outside them and unmatched or extra brackets      *)
(* yield no token and no output text.                                      *)
(* Refuted by the code: the pattern of findall excludes only "}" from a    *)
(* payload, which so begins at an unmatched "{" and runs over any later    *)
(* "{" up to the next "}".                                                 *)
(***************************************************************************)
RECURSIVE WellFormedPayloads(_)
\* the payloads of the groups "{...}" that hold no brace, left to right
WellFormedPayloads(s) ==
    IF \E j \in 1..Len(s) : s[j] = "}"
    THEN LET j == CHOOSE a \in 1..Len(s) :
                     s[a] = "}" /\ \A b \in 1..(a - 1) : s[b] # "}"
             opens == {a \in 1..(j - 1) : s[a] = "{"}
             rest == WellFormedPayloads(SubSeq(s, j + 1, Len(s)))
         IN  IF opens = {} THEN rest
             ELSE LET i == CHOOSE a \in opens : \A b \in opens : b <= a
                  IN  <<SubSeq(s, i + 1, j - 1)>> \o rest
    ELSE <<>>

C8_OnlyWellFormedGroups ==
    pc # "call" /\ ~mana_cost.isna
        => result = expand_mana_cost(Text(Groups(WellFormedPayloads(mana_cost.str))))

(***************************************************************************)
(* C9.  As claimed: a payload containing '/' whose parts are all empty     *)
(* after trimming gets no " hybrid mana" suffix and expands to the raw     *)
(* payload unchanged; " hybrid mana" is produced only when some part has a *)
(* non-empty description, and the parts with an empty description are      *)
(* left out of the " or " join.                                            *)
(* Refuted: the payload that comes back has lost its surrounding           *)
(* whitespace.                                                             *)
(***************************************************************************)
HybridSuffixOnlyIfDescribed(k) ==
    EndsWith(Phrases[k], s_hybrid_mana)
        => /\ Contains(NormalForm(SymbolGroups[k]), "/")
           /\ ~AllPartsEmpty(NormalForm(SymbolGroups[k]))
           /\ Phrases[k] = HybridPhrase(NormalForm(SymbolGroups[k]))

C9_RawPayloadFallback ==
    ReturnedStr /\ Len(Phrases) = Len(SymbolGroups)
        => \A k \in 1..Len(SymbolGroups) :
               /\ Contains(SymbolGroups[k], "/") /\ AllPartsEmpty(NormalForm(SymbolGroups[k]))
                      => Phrases[k] = SymbolGroups[k]
               /\ HybridSuffixOnlyIfDescribed(k)

(***************************************************************************)
(* C9, amended.  A payload containing '/' whose parts are all empty after  *)
(* trimming gets no " hybrid mana" suffix and expands to the payload with  *)
(* its surrounding whitespace removed, otherwise unchanged; " hybrid mana" *)
(* is produced only when some part has a non-empty description, and the    *)
(* parts with an empty description are left out of the " or " join.        *)
(***************************************************************************)
C9_TrimmedPayloadFallback ==
    ReturnedStr
        => /\ Len(Phrases) = Len(SymbolGroups)
           /\ \A k \in 1..Len(SymbolGroups) :
                  /\ Contains(SymbolGroups[k], "/")
                         /\ AllPartsEmpty(NormalForm(SymbolGroups[k]))
                         => Phrases[k] = Strip(SymbolGroups[k])
                  /\ HybridSuffixOnlyIfDescribed(k)

C9_Witness ==
    /\ Returned
    /\ mana_cost = Text(<<"{", " ", "/", "}">>)
    /\ result = ReturnStr(<<"/">>)

(***************************************************************************)
(* C10.  With num_cards = N >= 1 the ingestion loop stops after at most N  *)
(* rows, so at most N objects are added to the batch; rows without a       *)
(* multiverse_id add no object.                                            *)
(* Refuted by the code: the test `index > num_cards` on the 0-based index  *)
(* stops the loop only after row N + 1, the (N + 2)-th row.                *)
(***************************************************************************)
RowsWithId(n) == Cardinality({i \in 1..n : rows[i].has_id})

C10_AtMostNumCards ==
    /\ num_cards >= 1 => processed <= num_cards /\ Len(batch) <= num_cards
    /\ Len(batch) <= RowsWithId(processed)

(***************************************************************************)
(* main: the command-line program of src/management.py, and that of        *)
(* src/main.py, which connects before its try statement and closes         *)
(* without a test.                                                         *)
(*                                                                         *)
(* calls is the history of the calls made to the database, each with       *)
(* whether it returned; any of them may raise.  client is the local        *)
(* variable of main; raised tells that an exception is propagating.        *)
(***************************************************************************)
Call(name, ok) == [call |-> name, ok |-> ok]

InitMain ==
    /\ program \in {"management", "main"}
    /\ args \in [build_db : BOOLEAN, query : BOOLEAN, client : {"local", "cloud"}]
    /\ program = "main" => args.client = "local"
    /\ cards_exists \in BOOLEAN
    /\ client = "None"
    /\ raised = FALSE
    /\ calls = <<>>
    /\ mpc = "parse"
    /\ ExpanderIdle
    /\ IngestIdle
    /\ AppIdle
    /\ TwinIdle

\* where the try block goes after the build steps
AfterBuild == IF args.query THEN "query" ELSE "finally"

\* parser.parse_args() and the test that a command was given
ParseArgs ==
    /\ mpc = "parse"
    /\ mpc' = IF ~args.build_db /\ ~args.query THEN "exited" ELSE "connect"
    /\ UNCHANGED <<program, args, cards_exists, client, raised, calls,
                   expanderVars, ingestVars, appVars, twinVars>>

\* get_local_weaviate_client() / get_cloud_weaviate_client() inside the try of
\* management.py; weaviate.connect_to_local() before the try of main.py
Connect ==
    /\ mpc = "connect"
    /\ \E ok \in BOOLEAN :
          /\ calls' = Append(calls, Call("connect", ok))
          /\ client' = IF ok THEN "client" ELSE "None"
          /\ raised' = ~ok
          /\ mpc' = IF ok THEN (IF args.build_db THEN "exists" ELSE "query")
                    ELSE IF program = "management" THEN "finally" ELSE "done"
    /\ UNCHANGED <<program, args, cards_exists, expanderVars, ingestVars, appVars, twinVars>>

\* create_*_cards_collection: client.collections.exists("Cards") and should_recreate
CollectionExists ==
    /\ mpc = "exists"
    /\ \E ok \in BOOLEAN :
          /\ calls' = Append(calls, Call("exists", ok))
          /\ raised' = ~ok
          /\ mpc' = IF ~ok THEN "finally"
                    ELSE IF cards_exists THEN "delete" ELSE "create"
    /\ UNCHANGED <<program, args, cards_exists, client, expanderVars, ingestVars, appVars, twinVars>>

\* client.collections.delete("Cards")
CollectionDelete ==
    /\ mpc = "delete"
    /\ \E ok \in BOOLEAN :
          /\ calls' = Append(calls, Call("delete", ok))
          /\ raised' = ~ok
          /\ cards_exists' = IF ok THEN FALSE ELSE cards_exists
          /\ mpc' = IF ok THEN "create" ELSE "finally"
    /\ UNCHANGED <<program, args, client, expanderVars, ingestVars, appVars, twinVars>>

\* client.collections.create(name="Cards", ...)
CollectionCreate ==
    /\ mpc = "create"
    /\ \E ok \in BOOLEAN :
          /\ calls' = Append(calls, Call("create", ok))
          /\ raised' = ~ok
          /\ cards_exists' = IF ok THEN TRUE ELSE cards_exists
          /\ mpc' = IF ok THEN "ingest" ELSE "finally"
    /\ UNCHANGED <<program, args, client, expanderVars, ingestVars, appVars, twinVars>>

\* add_cards_to_collection(client, num_cards=args.num_cards), as a whole
Ingest ==
    /\ mpc = "ingest"
    /\ \E ok \in BOOLEAN :
          /\ calls' = Append(calls, Call("ingest", ok))
          /\ raised' = ~ok
          /\ mpc' = IF ok THEN AfterBuild ELSE "finally"
    /\ UNCHANGED <<program, args, cards_exists, client, expanderVars, ingestVars, appVars, twinVars>>

\* query_cards(client, args.query) and the printing of its objects
Query ==
    /\ mpc = "query"
    /\ \E ok \in BOOLEAN :
          /\ calls' = Append(calls, Call("query", ok))
          /\ raised' = ~ok
          /\ mpc' = "finally"
    /\ UNCHANGED <<program, args, cards_exists, client, expanderVars, ingestVars, appVars, twinVars>>

\* a finally clause that closes only when the try block ended without error
Finally_notOnError ==
    /\ mpc = "finally"
    /\ IF client # "None" /\ ~raised
       THEN \E ok \in BOOLEAN :
               /\ calls' = Append(calls, Call("close", ok))
               /\ raised' = ~ok
       ELSE UNCHANGED <<calls, raised>>
    /\ mpc' = "done"
    /\ UNCHANGED <<program, args, cards_exists, client, expanderVars, ingestVars, appVars, twinVars>>

\* the finally clause: `if client is not None: client.close()` in management.py,
\* `client.close()` in main.py, where the client is always bound here
Finally ==
    /\ mpc = "finally"
    /\ IF program = "main" \/ client # "None"
       THEN \E ok \in BOOLEAN :
               /\ calls' = Append(calls, Call("close", ok))
               /\ raised' = (raised \/ ~ok)
       ELSE UNCHANGED <<calls, raised>>
    /\ mpc' = "done"
    /\ UNCHANGED <<program, args, cards_exists, client, expanderVars, ingestVars, appVars, twinVars>>

NextMain ==
    \/ ParseArgs \/ Connect \/ CollectionExists \/ CollectionDelete
    \/ CollectionCreate \/ Ingest \/ Query \/ Finally

SpecMain == InitMain /\ [][NextMain]_vars

(***************************************************************************)
(* C11.  main releases the database client on every path: if a client was  *)
(* obtained, close() is called exactly once, as the last call, after the   *)
(* build and query steps have all finished or one of them has raised (the  *)
(* build steps before the query); if no client was obtained, close() is    *)
(* never called.                                                           *)
(***************************************************************************)
CallsOf(name) == {i \in 1..Len(calls) : calls[i].call = name}
Obtained == \E i \in CallsOf("connect") : calls[i].ok
StepRaised ==
    \E i \in 1..Len(calls) : calls[i].call \notin {"connect", "close"} /\ ~calls[i].ok
Finished(name) == \E i \in CallsOf(name) : calls[i].ok
BuildCalls == CallsOf("exists") \cup CallsOf("delete") \cup CallsOf("create")
                  \cup CallsOf("ingest")

C11_ClientClosedOnce ==
    /\ Cardinality(CallsOf("close")) <= 1
    /\ ~Obtained => CallsOf("close") = {}
    /\ Obtained /\ mpc = "done" => Cardinality(CallsOf("close")) = 1
    /\ CallsOf("close") # {}
          => /\ calls[Len(calls)].call = "close"
             /\ mpc = "done"
             /\ StepRaised \/ ( /\ args.build_db => Finished("create") /\ Finished("ingest")
                                /\ args.query => Finished("query") )
    /\ \A i \in BuildCalls : \A j \in CallsOf("query") : i < j

C11_Witness ==
    /\ mpc = "done"
    /\ program = "management"
    /\ args.build_db /\ args.query
    /\ calls = <<Call("connect", TRUE), Call("exists", TRUE), Call("delete", TRUE),
                 Call("create", TRUE), Call("ingest", FALSE), Call("close", TRUE)>>

(***************************************************************************)
(* The web app of src/app.py: the database client cached in                *)
(* app.weaviate_client, over a sequence of calls.                          *)
(*                                                                         *)
(* created counts the clients connected so far, closed records the calls   *)
(* of client.close() with how each ended, got is the client returned by    *)
(* the last get_weaviate_client since the last close_weaviate_client.      *)
(***************************************************************************)
MaxClients == 3

\* "remote" stands for any value of WEAVIATE_CLIENT_MODE other than the two supported
Modes == {"local", "cloud", "remote"}

\* initialize_weaviate_client(mode); connects tells whether get_*_weaviate_client returns
initialize_weaviate_client(mode, connects) ==
    IF mode = "cloud" THEN (IF connects THEN "client" ELSE "raise")
    ELSE IF mode = "local" THEN (IF connects THEN "client" ELSE "raise")
    ELSE "raise"

InitApp ==
    /\ weaviate_client = NoClient
    /\ config_mode \in Modes
    /\ created = 0
    /\ closed = {}
    /\ got = NoClient
    /\ last = NoCall
    /\ ExpanderIdle
    /\ IngestIdle
    /\ MainIdle
    /\ TwinIdle

\* __main__: app.weaviate_client = initialize_weaviate_client(args.client)
StartupInit ==
    /\ last.op = "none"
    /\ config_mode \in {"local", "cloud"}
    /\ \E connects \in BOOLEAN :
          LET r == initialize_weaviate_client(config_mode, connects) IN
          /\ weaviate_client' = IF r = "client" THEN created + 1 ELSE weaviate_client
          /\ created' = IF r = "client" THEN created + 1 ELSE created
          /\ last' = [op |-> "startup", before |-> weaviate_client, init |-> TRUE,
                      outcome |-> IF r = "client" THEN "returned" ELSE "raised",
                      value |-> NoClient, prevgot |-> got]
    /\ UNCHANGED <<config_mode, closed, got, expanderVars, ingestVars, mainVars, twinVars>>

\* get_weaviate_client, the cached client is not None
GetCached ==
    /\ weaviate_client # NoClient
    /\ last' = [op |-> "get", before |-> weaviate_client, init |-> FALSE,
                outcome |-> "returned", value |-> weaviate_client, prevgot |-> got]
    /\ got' = weaviate_client
    /\ UNCHANGED <<weaviate_client, config_mode, created, closed,
                   expanderVars, ingestVars, mainVars, twinVars>>

\* get_weaviate_client, no client is cached
GetInitialise ==
    /\ weaviate_client = NoClient
    /\ \E connects \in {c \in BOOLEAN : c => created < MaxClients} :
          LET r == initialize_weaviate_client(config_mode, connects) IN
          /\ weaviate_client' = IF r = "client" THEN created + 1 ELSE weaviate_client
          /\ created' = IF r = "client" THEN created + 1 ELSE created
          /\ got' = IF r = "client" THEN created + 1 ELSE got
          /\ last' = [op |-> "get", before |-> weaviate_client, init |-> TRUE,
                      outcome |-> IF r = "client" THEN "returned" ELSE "raised",
                      value |-> IF r = "client" THEN created + 1 ELSE NoClient,
                      prevgot |-> got]
    /\ UNCHANGED <<config_mode, closed, expanderVars, ingestVars, mainVars, twinVars>>

\* what client.close() may do: return, raise an Exception, raise another BaseException
CloseResults == {"returned", "Exception", "BaseException"}

\* close_weaviate_client with the reset in an else clause in place of finally
close_weaviate_client_else ==
    /\ IF weaviate_client # NoClient
       THEN \E res \in CloseResults :
               /\ closed' = closed \cup {[client |-> weaviate_client, res |-> res]}
               /\ weaviate_client' = IF res = "returned" THEN NoClient ELSE weaviate_client
               /\ last' = [op |-> "close", before |-> weaviate_client, init |-> FALSE,
                           outcome |-> IF res = "BaseException" THEN "raised" ELSE "returned",
                           value |-> NoClient, prevgot |-> got]
       ELSE /\ last' = [op |-> "close", before |-> weaviate_client, init |-> FALSE,
                        outcome |-> "returned", value |-> NoClient, prevgot |-> got]
            /\ UNCHANGED <<weaviate_client, closed>>
    /\ got' = NoClient
    /\ UNCHANGED <<config_mode, created, expanderVars, ingestVars, mainVars, twinVars>>

\* close_weaviate_client: an Exception of client.close() is logged, any other
\* propagates, and the finally clause resets app.weaviate_client in every case
close_weaviate_client ==
    /\ IF weaviate_client # NoClient
       THEN \E res \in CloseResults :
               /\ closed' = closed \cup {[client |-> weaviate_client, res |-> res]}
               /\ weaviate_client' = NoClient
               /\ last' = [op |-> "close", before |-> weaviate_client, init |-> FALSE,
                           outcome |-> IF res = "BaseException" THEN "raised" ELSE "returned",
                           value |-> NoClient, prevgot |-> got]
       ELSE /\ last' = [op |-> "close", before |-> weaviate_client, init |-> FALSE,
                        outcome |-> "returned", value |-> NoClient, prevgot |-> got]
            /\ UNCHANGED <<weaviate_client, closed>>
    /\ got' = NoClient
    /\ UNCHANGED <<config_mode, created, expanderVars, ingestVars, mainVars, twinVars>>

NextApp == StartupInit \/ GetCached \/ GetInitialise \/ close_weaviate_client

SpecApp == InitApp /\ [][NextApp]_vars

(***************************************************************************)
(* C12.  Over any sequence of calls the web app holds at most one cached   *)
(* client: initialize_weaviate_client is invoked only when                 *)
(* app.weaviate_client is None; a get_weaviate_client that follows a       *)
(* successful one with no close in between returns the same client; a      *)
(* failed initialisation leaves app.weaviate_client None; and when         *)
(* close_weaviate_client has returned app.weaviate_client is None,         *)
(* whether or not client.close() raised.                                   *)
(***************************************************************************)
ClosedClients == {c.client : c \in closed}

C12_OneCachedClient ==
    /\ weaviate_client \in 0..created
    /\ (1..created) \ ClosedClients \subseteq {weaviate_client}
    /\ last.init => last.before = NoClient
    /\ last.op = "get" /\ last.prevgot # NoClient
          => /\ last.outcome = "returned"
             /\ last.value = last.prevgot
             /\ ~last.init
    /\ last.init /\ last.outcome = "raised" => weaviate_client = NoClient
    /\ last.op = "close" /\ last.outcome = "returned" => weaviate_client = NoClient

\* a close in which client.close() raised has been followed by a new
\* initialisation, and two calls of get_weaviate_client returned that client
C12_Witness ==
    /\ [client |-> 1, res |-> "Exception"] \in closed
    /\ last.op = "get"
    /\ last.prevgot = 2
    /\ last.value = 2
    /\ weaviate_client = 2

(***************************************************************************)
(* The two copies of the expander called on the same input, each of them   *)
(* twice, in any order.  result and again hold what the copy of            *)
(* src/management.py gave, main_result and main_again what the copy of     *)
(* src/main.py gave.                                                       *)
(***************************************************************************)
MaxTwinLen == 3
MaxTwinGroups == 2

TwinInputs ==
    {Absent} \cup {Text(s) : s \in StringsUpTo(MaxTwinLen)}
             \cup {Text(Group(p)) : p \in SingleSymbols}
             \cup {Text(s) : s \in GroupStrings(MaxTwinGroups)}

InitTwin ==
    /\ mana_cost \in TwinInputs
    /\ result = Pending
    /\ pc = "twin"
    /\ colour_map = main_COLOUR_MAP
    /\ main_result = Pending
    /\ main_again = Pending
    /\ again = Pending
    /\ IngestIdle
    /\ MainIdle
    /\ AppIdle

\* a call that removes the entry it has looked up, as COLOUR_MAP.pop would
CallMain_pop ==
    /\ pc = "twin"
    /\ main_result = Pending
    /\ main_result' = main_expand_mana_cost(mana_cost)
    /\ colour_map' = [k \in DOMAIN colour_map \ {"W"} |-> colour_map[k]]
    /\ UNCHANGED <<mana_cost, result, pc, main_again, again,
                   ingestVars, mainVars, appVars>>

\* the first call of expand_mana_cost of src/main.py
CallMain ==
    /\ pc = "twin"
    /\ main_result = Pending
    /\ main_result' = main_expand_mana_cost(mana_cost)
    /\ UNCHANGED <<mana_cost, result, pc, colour_map, main_again, again,
                   ingestVars, mainVars, appVars>>

\* the second call of expand_mana_cost of src/main.py
CallMainAgain ==
    /\ pc = "twin"
    /\ main_result # Pending
    /\ main_again = Pending
    /\ main_again' = main_expand_mana_cost(mana_cost)
    /\ UNCHANGED <<mana_cost, result, pc, colour_map, main_result, again,
                   ingestVars, mainVars, appVars>>

\* the first call of expand_mana_cost of src/management.py
CallManagement ==
    /\ pc = "twin"
    /\ result = Pending
    /\ result' = expand_mana_cost(mana_cost)
    /\ UNCHANGED <<mana_cost, pc, colour_map, main_result, main_again, again,
                   ingestVars, mainVars, appVars>>

\* the second call of expand_mana_cost of src/management.py
CallManagementAgain ==
    /\ pc = "twin"
    /\ result # Pending
    /\ again = Pending
    /\ again' = expand_mana_cost(mana_cost)
    /\ UNCHANGED <<mana_cost, result, pc, colour_map, main_result, main_again,
                   ingestVars, mainVars, appVars>>

NextTwin == CallMain \/ CallMainAgain \/ CallManagement \/ CallManagementAgain

SpecTwin == InitTwin /\ [][NextTwin]_vars

====
